---- MODULE Spec2Model ----
(***************************************************************************)
(* Model of arcana.flywheel.data.api.Flywheel, the Flywheel store of       *)
(* Arcana: the remote project tree (subjects and their sessions), the      *)
(* scoped backend connection, and the store's operations populate_tree,    *)
(* create_data_tree, get_fwrow, upload_files and create_fileset_entry.     *)
(*                                                                         *)
(* Strings are sequences of character codes, so that Python's string       *)
(* order (sorted by label) and substring test ("@" in uri) are computed.   *)
(* An optional value is <<>> (None) or <<x>>.                              *)
(***************************************************************************)
EXTENDS Integers, Sequences, FiniteSets, TLC

VARIABLES
    project,   \* the remote project "arcana_tests/<id>": <<>> or <<set of subjects>>
    depth,     \* nesting depth of the open connection scope (0: no connection)
    op,        \* the operation that ran last
    arg,       \* its argument (leaves, row or entry), <<>> when it has none
    error,     \* the exception it raised, or "none"
    tree,      \* the leaves tree.add_leaf received, in order, in that operation
    ret,       \* what the operation returned (an optional value)
    calls,     \* the backend calls it made, each with the scope depth at the call
    upload,    \* the upload it performed (an optional value)
    entries    \* the entries registered on rows by create_fileset_entry

vars == <<project, depth, op, arg, error, tree, ret, calls, upload, entries>>

----------------------------------------------------------------------------
(* Bounds of the model *)

MaxLeaves == 2      \* longest list of leaves handed to create_data_tree
MaxDepth == 1       \* deepest scope the caller itself holds open

(* Program constants *)

SecondsPerYear == 31536000

----------------------------------------------------------------------------
(* Values *)

None == <<>>
Some(x) == <<x>>
IsNone(o) == o = <<>>
Val(o) == o[1]

At == 64                                  \* "@"
DatasetId == <<100, 115>>                 \* "ds", the one dataset of the model
SubjectLabels == {<<49, 48>>, <<50>>}     \* "10", "2"
SessionLabels == {<<65>>, <<66>>}         \* "A", "B"
(* What a scan records on a session: its timestamp and the subject's age. *)
Scans ==
    {[timestamp |-> <<>>, age |-> <<>>],
     [timestamp |-> <<>>, age |-> <<SecondsPerYear \div 2>>],
     [timestamp |-> <<1>>, age |-> <<0>>],
     [timestamp |-> <<2>>, age |-> <<>>],
     [timestamp |-> <<2>>, age |-> <<SecondsPerYear>>]}
Paths == {<<98>>, <<98, At>>, <<98, At, 110>>}      \* "b", "b@", "b@n"
Uris == {<<54, 52>>, <<54, At>>}                    \* "64", "6@"

(* Python's str.__lt__: lexicographic order on the character codes. *)
RECURSIVE StrLT(_, _)
StrLT(a, b) ==
    IF b = <<>> THEN FALSE
    ELSE IF a = <<>> THEN TRUE
    ELSE IF Head(a) # Head(b) THEN Head(a) < Head(b)
    ELSE StrLT(Tail(a), Tail(b))

(* Python's `c in s` for a one-character c. *)
Contains(s, c) == \E i \in 1..Len(s) : s[i] = c

(* The orders in which the backend may list the members of a set. *)
Listings(S) ==
    {f \in [1..Cardinality(S) -> S] : \A i, j \in 1..Cardinality(S) : f[i] = f[j] => i = j}

----------------------------------------------------------------------------
(* The remote side.  A session is [label, timestamp, age]: timestamp and   *)
(* age are optional.  A subject is [label, sessions]; the project, when it *)
(* exists, holds a set of subjects.                                        *)

NewSession(label) == [label |-> label, timestamp |-> None, age |-> None]

SubjectsOf(proj) == IF IsNone(proj) THEN {} ELSE Val(proj)

(* fwsess.date: the calendar day of the session's timestamp. *)
SessionDate(sess) ==
    IF IsNone(sess.timestamp) THEN None
    ELSE IF Val(sess.timestamp) = 1 THEN Some([y |-> 1999, m |-> 12, d |-> 31])
    ELSE Some([y |-> 2023, m |-> 1, d |-> 5])

(* Zero-padded decimal digits of n, as character codes. *)
RECURSIVE Digits(_, _)
Digits(n, width) ==
    IF width = 0 THEN <<>> ELSE Append(Digits(n \div 10, width - 1), 48 + (n % 10))

(* date.strftime("%Y%m%d") *)
Strftime(date) == Digits(date.y, 4) \o Digits(date.m, 2) \o Digits(date.d, 2)

(* A float quotient, kept exact: the fraction n/d in lowest terms, d > 0. *)
RECURSIVE Gcd(_, _)
Gcd(a, b) == IF b = 0 THEN a ELSE Gcd(b, a % b)
Abs(n) == IF n < 0 THEN -n ELSE n
Quotient(n, d) ==
    LET g == Gcd(Abs(n), d) IN [num |-> n \div g, den |-> d \div g]

----------------------------------------------------------------------------
(* populate_tree *)

(* sorted(fwproject.subjects(), key=lambda x: x.label): a stable sort; x   *)
(* goes before the first element whose label is greater than its own.      *)
RECURSIVE InsertByLabel(_, _)
InsertByLabel(x, s) ==
    IF s = <<>> THEN <<x>>
    ELSE IF StrLT(x.label, Head(s).label) THEN <<x>> \o s
    ELSE <<Head(s)>> \o InsertByLabel(x, Tail(s))

RECURSIVE SortByLabel(_)
SortByLabel(listed) ==
    IF listed = <<>> THEN <<>>
    ELSE InsertByLabel(listed[Len(listed)], SortByLabel(SubSeq(listed, 1, Len(listed) - 1)))

SubjectsUnsorted(listed) == listed

SortSubjects(listed) == SortByLabel(listed)

(* sorted(fwsubject.sessions(), key=lambda x: x.timestamp): comparing keys *)
(* raises TypeError as soon as one of two or more keys is None.            *)
SortSessionsRaises(listed) ==
    Len(listed) >= 2 /\ \E i \in 1..Len(listed) : IsNone(listed[i].timestamp)

RECURSIVE InsertByTimestamp(_, _)
InsertByTimestamp(x, s) ==
    IF s = <<>> THEN <<x>>
    ELSE IF Val(x.timestamp) < Val(Head(s).timestamp) THEN <<x>> \o s
    ELSE <<Head(s)>> \o InsertByTimestamp(x, Tail(s))

RECURSIVE SortByTimestamp(_)
SortByTimestamp(listed) ==
    IF Len(listed) <= 1 THEN listed
    ELSE InsertByTimestamp(listed[Len(listed)],
                           SortByTimestamp(SubSeq(listed, 1, Len(listed) - 1)))

SortSessions(listed) == SortByTimestamp(listed)

(* The metadata of one leaf. *)
LeafDate(sess) ==
    IF ~IsNone(sess.timestamp) THEN Some(Strftime(Val(SessionDate(sess)))) ELSE None

LeafAgeIfTruthy(sess) ==
    IF ~IsNone(sess.age) /\ Val(sess.age) # 0
    THEN Quotient(Val(sess.age), SecondsPerYear) ELSE Quotient(-1, 1)

LeafAge(sess) ==
    IF ~IsNone(sess.age) THEN Quotient(Val(sess.age), SecondsPerYear) ELSE Quotient(-1, 1)

Leaf(subject, sess) ==
    [ids |-> <<subject.label, sess.label>>,
     metadata |-> [date |-> LeafDate(sess), age |-> LeafAge(sess)]]

LeavesOf(subject, sessions) == [i \in 1..Len(sessions) |-> Leaf(subject, sessions[i])]

(* The loop over the sorted subjects, from the i-th on.  listing[s] is the *)
(* order in which the backend lists the sessions of s; the sessions() call *)
(* of the fault-th subject fails (0: none does).  Gives the leaves added,  *)
(* the error raised and the number of sessions() calls made.               *)
RECURSIVE ScanSubjects(_, _, _, _)
ScanSubjects(subjects, listing, fault, i) ==
    IF i > Len(subjects) THEN [leaves |-> <<>>, error |-> "none", scans |-> 0]
    ELSE IF fault = i THEN [leaves |-> <<>>, error |-> "ApiException", scans |-> 1]
    ELSE IF SortSessionsRaises(listing[subjects[i]])
         THEN [leaves |-> <<>>, error |-> "TypeError", scans |-> 1]
    ELSE LET rest == ScanSubjects(subjects, listing, fault, i + 1) IN
         [leaves |-> LeavesOf(subjects[i], SortSessions(listing[subjects[i]])) \o rest.leaves,
          error |-> rest.error,
          scans |-> 1 + rest.scans]

(* The lookup of the project: ApiException when there is none. *)
LookupSwallowed(proj) == "none"

LookupError(proj) == IF IsNone(proj) THEN "ApiException" ELSE "none"

(* The body of populate_tree, inside the connection scope. *)
PopulateBody(proj, listed, listing, fault) ==
    IF IsNone(proj)
    THEN [leaves |-> <<>>, error |-> LookupError(proj), scans |-> 0, listedSubjects |-> FALSE]
    ELSE ScanSubjects(SortSubjects(listed), listing, fault, 1) @@ [listedSubjects |-> TRUE]

----------------------------------------------------------------------------
(* The connection scope, `with self.connection:`: entering opens the       *)
(* connection (connect) or nests in the open one, leaving closes it        *)
(* (disconnect) when the outermost scope is left.                          *)

Enter(d) == d + 1
Exit(d) == d - 1

Call(name, d) == [call |-> name, depth |-> d]

Init ==
    /\ project = None
    /\ depth = 0
    /\ op = "init"
    /\ arg = <<>>
    /\ error = "none"
    /\ tree = <<>>
    /\ ret = None
    /\ calls = <<>>
    /\ upload = None
    /\ entries = {}

(* A scope the caller of the store holds open around its operations. *)
connect ==
    /\ depth < MaxDepth
    /\ depth' = Enter(depth)
    /\ op' = "connect"
    /\ arg' = <<>>
    /\ error' = "none" /\ tree' = <<>> /\ ret' = None /\ calls' = <<>> /\ upload' = None
    /\ UNCHANGED <<project, entries>>

disconnect ==
    /\ depth > 0
    /\ depth' = Exit(depth)
    /\ op' = "disconnect"
    /\ arg' = <<>>
    /\ error' = "none" /\ tree' = <<>> /\ ret' = None /\ calls' = <<>> /\ upload' = None
    /\ UNCHANGED <<project, entries>>

(* The orders in which the backend lists the sessions of each subject. *)
SessionListings(subjects) ==
    {f \in [subjects -> UNION {Listings(s.sessions) : s \in subjects}] :
        \A s \in subjects : f[s] \in Listings(s.sessions)}

populate_tree ==
    \E listed \in Listings(SubjectsOf(project)) :
    \E listing \in SessionListings(SubjectsOf(project)) :
    \E fault \in 0..Cardinality(SubjectsOf(project)) :
        LET inner == Enter(depth)
            r == PopulateBody(project, listed, listing, fault)
        IN  /\ op' = "populate_tree"
            /\ arg' = <<>>
            /\ error' = r.error
            /\ tree' = r.leaves
            /\ ret' = None
            /\ calls' = <<Call("lookup", inner)>>
                        \o (IF r.listedSubjects THEN <<Call("subjects", inner)>> ELSE <<>>)
                        \o [i \in 1..r.scans |-> Call("sessions", inner)]
            /\ upload' = None
            /\ depth' = Exit(inner)
            /\ UNCHANGED <<project, entries>>

----------------------------------------------------------------------------
(* create_data_tree *)

LeafLists == UNION {[1..n -> SubjectLabels \X SessionLabels] : n \in 0..MaxLeaves}

(* The loop over the leaves, from the i-th on: add_subject is rejected for *)
(* a label the project already has and the leaf is skipped, otherwise the  *)
(* subject is added and the session is added to it.                        *)
RECURSIVE AddLeaves(_, _, _)
AddLeaves(subjects, leaves, i) ==
    IF i > Len(leaves) THEN [subjects |-> subjects, log |-> <<>>]
    ELSE IF \E s \in subjects : s.label = leaves[i][1]
         THEN LET rest == AddLeaves(subjects, leaves, i + 1) IN
              [subjects |-> rest.subjects, log |-> <<"add_subject">> \o rest.log]
    ELSE LET added == [label |-> leaves[i][1], sessions |-> {NewSession(leaves[i][2])}]
             rest == AddLeaves(subjects \cup {added}, leaves, i + 1)
         IN  [subjects |-> rest.subjects,
              log |-> <<"add_subject", "add_session">> \o rest.log]

(* The body of create_data_tree: add_project is rejected, and the          *)
(* exception leaves the method, when the group has a project of that label.*)
CreateBody(proj, leaves) ==
    IF ~IsNone(proj)
    THEN [project |-> proj, error |-> "ApiException", log |-> <<"get", "add_project">>]
    ELSE LET r == AddLeaves({}, leaves, 1) IN
         [project |-> Some(r.subjects), error |-> "none",
          log |-> <<"get", "add_project">> \o r.log]

create_data_tree ==
    \E leaves \in LeafLists :
        LET inner == Enter(depth)
            r == CreateBody(project, leaves)
        IN  /\ op' = "create_data_tree"
            /\ arg' = leaves
            /\ project' = r.project
            /\ error' = r.error
            /\ tree' = <<>>
            /\ ret' = None
            /\ calls' = [i \in 1..Len(r.log) |-> Call(r.log[i], inner)]
            /\ upload' = None
            /\ depth' = Exit(inner)
            /\ UNCHANGED entries

----------------------------------------------------------------------------
(* get_fwrow *)

Rows ==
    {[frequency |-> "dataset", subject |-> None, session |-> None],
     [frequency |-> "timepoint", subject |-> None, session |-> None]}
    \cup {[frequency |-> "subject", subject |-> Some(l), session |-> None] :
             l \in SubjectLabels}
    \cup {[frequency |-> "session", subject |-> Some(l), session |-> Some(m)] :
             l \in SubjectLabels, m \in SessionLabels}

(* row.frequency_id(level): the row's ID at that level. *)
FrequencyId(row, level) == IF level = "subject" THEN row.subject ELSE row.session

(* The containers of the project, each with its kind and ID. *)
Containers(proj) ==
    {[kind |-> "subject", id |-> s.label] : s \in SubjectsOf(proj)}
    \cup {[kind |-> "session", id |-> x.label] :
             x \in UNION {s.sessions : s \in SubjectsOf(proj)}}

(* fwproject.get(id): the container of that ID, ApiException without one. *)
ProjectGet(proj, id) ==
    IF ~IsNone(id) /\ \E c \in Containers(proj) : c.id = Val(id)
    THEN [ret |-> Some(CHOOSE c \in Containers(proj) : c.id = Val(id)), error |-> "none"]
    ELSE [ret |-> None, error |-> "ApiException"]

(* The branch on row.frequency, once the project is looked up. *)
FwrowSwapped(proj, row) ==
    IF row.frequency = "dataset"
    THEN [ret |-> Some([kind |-> "project", id |-> DatasetId]), error |-> "none"]
    ELSE IF row.frequency = "subject" THEN ProjectGet(proj, FrequencyId(row, "session"))
    ELSE IF row.frequency = "session" THEN ProjectGet(proj, FrequencyId(row, "subject"))
    ELSE [ret |-> None, error |-> "NotImplementedError"]

Fwrow(proj, row) ==
    IF row.frequency = "dataset"
    THEN [ret |-> Some([kind |-> "project", id |-> DatasetId]), error |-> "none"]
    ELSE IF row.frequency = "subject" THEN ProjectGet(proj, FrequencyId(row, "subject"))
    ELSE IF row.frequency = "session" THEN ProjectGet(proj, FrequencyId(row, "session"))
    ELSE [ret |-> None, error |-> "NotImplementedError"]

GetFwrowBody(proj, row) ==
    IF IsNone(proj)
    THEN [ret |-> None, error |-> LookupError(proj), log |-> <<"lookup">>]
    ELSE Fwrow(proj, row)
         @@ [log |-> IF row.frequency \in {"subject", "session"}
                     THEN <<"lookup", "get">> ELSE <<"lookup">>]

get_fwrow ==
    \E row \in Rows :
        LET inner == Enter(depth)
            r == GetFwrowBody(project, row)
        IN  /\ op' = "get_fwrow"
            /\ arg' = row
            /\ error' = r.error
            /\ ret' = r.ret
            /\ calls' = [i \in 1..Len(r.log) |-> Call(r.log[i], inner)]
            /\ tree' = <<>>
            /\ upload' = None
            /\ depth' = Exit(inner)
            /\ UNCHANGED <<project, entries>>

----------------------------------------------------------------------------
(* upload_files *)

Entries == [path : Paths, uri : Uris]

(* The branch of upload_files on the entry. *)
UploadOperation(entry) ==
    IF Contains(entry.uri, At) THEN "upload_output" ELSE "upload_file"

(* self.connection.get(entry.uri) is called in the scope the caller holds, *)
(* if any; found tells whether the call returns a container.               *)
upload_files ==
    \E entry \in Entries, found \in BOOLEAN :
        /\ op' = "upload_files"
        /\ arg' = entry
        /\ calls' = <<Call("get", depth)>>
        /\ error' = IF found THEN "none" ELSE "ApiException"
        /\ upload' = IF found THEN Some(UploadOperation(entry)) ELSE None
        /\ ret' = None
        /\ tree' = <<>>
        /\ UNCHANGED <<project, depth, entries>>

----------------------------------------------------------------------------
(* create_fileset_entry *)

(* The names the module binds: its imports, logger and the class. *)
ModuleNames ==
    {"annotations", "ty", "Path", "attrs", "FileSet", "RemoteStore", "DataRow",
     "DataTree", "DataEntry", "Clinical", "flywheel", "logging", "logger", "Flywheel"}

(* The method reads the global determine_fwrow, which the module does not  *)
(* bind, and then its local `entry` before the assignment that binds it.   *)
CreateFilesetEntryError ==
    IF "determine_fwrow" \notin ModuleNames THEN "NameError" ELSE "UnboundLocalError"

create_fileset_entry ==
    \E path \in Paths, row \in Rows :
        /\ op' = "create_fileset_entry"
        /\ arg' = [path |-> path, row |-> row]
        /\ error' = CreateFilesetEntryError
        /\ ret' = None
        /\ calls' = <<>>
        /\ tree' = <<>>
        /\ upload' = None
        /\ UNCHANGED <<project, depth, entries>>

----------------------------------------------------------------------------
(* Other users of the backend: sessions are added to the project's         *)
(* subjects and scanned (given a timestamp and the subject's age).         *)

ReplaceSubject(proj, old, new) == Some((Val(proj) \ {old}) \cup {new})

RemoteAddSession ==
    \E s \in SubjectsOf(project), label \in SessionLabels :
        /\ \A y \in s.sessions : y.label # label
        /\ project' = ReplaceSubject(project, s,
               [s EXCEPT !.sessions = @ \cup {NewSession(label)}])
        /\ op' = "remote"
        /\ arg' = <<>> /\ error' = "none" /\ tree' = <<>> /\ ret' = None
        /\ calls' = <<>> /\ upload' = None
        /\ UNCHANGED <<depth, entries>>

RemoteScan ==
    \E s \in SubjectsOf(project), scan \in Scans :
    \E x \in s.sessions :
        /\ [timestamp |-> x.timestamp, age |-> x.age] # scan
        /\ project' = ReplaceSubject(project, s,
               [s EXCEPT !.sessions = (@ \ {x}) \cup
                   {[x EXCEPT !.timestamp = scan.timestamp, !.age = scan.age]}])
        /\ op' = "remote"
        /\ arg' = <<>> /\ error' = "none" /\ tree' = <<>> /\ ret' = None
        /\ calls' = <<>> /\ upload' = None
        /\ UNCHANGED <<depth, entries>>

(* The store's operations on a project whose sessions are not scanned. *)
Next ==
    \/ connect
    \/ disconnect
    \/ populate_tree
    \/ create_data_tree
    \/ get_fwrow
    \/ upload_files
    \/ create_fileset_entry
    \/ RemoteAddSession

Spec == Init /\ [][Next]_vars

(* populate_tree on a project whose sessions are scanned, starting from   *)
(* the project as create_data_tree made it.                                *)
InitScan ==
    \E leaves \in LeafLists :
        /\ project = CreateBody(None, leaves).project
        /\ depth = 0
        /\ op = "create_data_tree"
        /\ arg = leaves
        /\ error = CreateBody(None, leaves).error
        /\ tree = <<>>
        /\ ret = None
        /\ calls = [i \in 1..Len(CreateBody(None, leaves).log) |->
                        Call(CreateBody(None, leaves).log[i], Enter(0))]
        /\ upload = None
        /\ entries = {}

NextScan ==
    \/ populate_tree
    \/ RemoteAddSession
    \/ RemoteScan

SpecScan == InitScan /\ [][NextScan]_vars

----------------------------------------------------------------------------
(* Properties *)

(* The session a leaf was made from. *)
SessionsAt(ids) ==
    {x \in UNION {s.sessions : s \in {t \in SubjectsOf(project) : t.label = ids[1]}} :
        x.label = ids[2]}
SessionAt(ids) == CHOOSE x \in SessionsAt(ids) : TRUE

(* C1: the leaves populate_tree adds are in the order of the subject       *)
(* labels and, within one subject, in the order of the session timestamps. *)
C1_LeafOrder ==
    op = "populate_tree" =>
        \A i, j \in 1..Len(tree) :
            i < j =>
                /\ ~StrLT(tree[j].ids[1], tree[i].ids[1])
                /\ tree[i].ids[1] = tree[j].ids[1] =>
                       /\ ~IsNone(SessionAt(tree[i].ids).timestamp)
                       /\ ~IsNone(SessionAt(tree[j].ids).timestamp)
                       /\ Val(SessionAt(tree[i].ids).timestamp)
                              <= Val(SessionAt(tree[j].ids).timestamp)

(* Two subjects, one of them with sessions of different timestamps, all in *)
(* the tree.                                                               *)
C1_Witness ==
    /\ op = "populate_tree"
    /\ error = "none"
    /\ \E i, j, k \in 1..Len(tree) :
           /\ tree[i].ids[1] # tree[k].ids[1]
           /\ i # j /\ tree[i].ids[1] = tree[j].ids[1]
           /\ SessionAt(tree[i].ids).timestamp # SessionAt(tree[j].ids).timestamp

(* C2: two runs of populate_tree on the same remote state add the same     *)
(* sequence of leaves.                                                     *)
C2_Deterministic ==
    [][(/\ op = "populate_tree" /\ error = "none"
        /\ op' = "populate_tree" /\ error' = "none"
        /\ project' = project) => tree' = tree]_vars

(* C3: after create_data_tree the project holds, for every leaf given, the *)
(* subject with the session.                                               *)
C3_AllLeavesCreated ==
    (op = "create_data_tree" /\ error = "none") =>
        \A i \in 1..Len(arg) :
            \E s \in SubjectsOf(project) :
                /\ s.label = arg[i][1]
                /\ \E x \in s.sessions : x.label = arg[i][2]

(* C4: create_data_tree does not fail on a container that exists, and the  *)
(* remote holds no two containers of one parent with the same label.       *)
NoDuplicates ==
    /\ \A s, t \in SubjectsOf(project) : s.label = t.label => s = t
    /\ \A s \in SubjectsOf(project) : \A x, y \in s.sessions : x.label = y.label => x = y
C4_ConflictTolerated ==
    /\ op = "create_data_tree" => error = "none"
    /\ NoDuplicates

(* C5: every operation makes its backend calls inside a connection scope   *)
(* it entered itself, so that none is made without an acquired connection. *)
C5_ScopedCalls ==
    \A i \in 1..Len(calls) : calls[i].depth > 0

(* C6: a derivative entry is uploaded with upload_output and a primary     *)
(* entry with upload_file.                                                 *)
C6_UploadByNamespace ==
    (op = "upload_files" /\ ~IsNone(upload)) =>
        (Val(upload) = "upload_output" <=> Contains(arg.path, At))

(* C7: create_fileset_entry ends without error for a row of a supported    *)
(* frequency, returning the entry it registered on the row.                *)
C7_EntryCreated ==
    (op = "create_fileset_entry" /\ arg.row.frequency \in {"dataset", "subject", "session"}) =>
        /\ error = "none"
        /\ ~IsNone(ret)
        /\ Val(ret).path = arg.path
        /\ Val(ret) \in entries

(* C8 as stated: a dataset row gives the project, a subject or session row *)
(* the container of its own ID, any other row NotImplementedError.         *)
OwnContainer(row) ==
    [kind |-> row.frequency, id |-> Val(FrequencyId(row, row.frequency))]
C8_ByFrequency ==
    op = "get_fwrow" =>
        IF arg.frequency = "dataset"
        THEN error = "none" /\ ret = Some([kind |-> "project", id |-> DatasetId])
        ELSE IF arg.frequency \in {"subject", "session"}
        THEN error = "none" => ret = Some(OwnContainer(arg))
        ELSE error = "NotImplementedError" /\ IsNone(ret)

(* C8, amended: the same once the project is found; when its lookup fails, *)
(* that error is raised for a row of any frequency and nothing is returned.*)
C8_ByFrequencyOnceFound ==
    op = "get_fwrow" =>
        IF IsNone(project) THEN error = "ApiException" /\ IsNone(ret)
        ELSE IF arg.frequency = "dataset"
        THEN error = "none" /\ ret = Some([kind |-> "project", id |-> DatasetId])
        ELSE IF arg.frequency \in {"subject", "session"}
        THEN IF OwnContainer(arg) \in Containers(project)
             THEN error = "none" /\ ret = Some(OwnContainer(arg))
             ELSE IsNone(ret)
        ELSE error = "NotImplementedError" /\ IsNone(ret)

(* A session row resolved to its session, in a project that has subjects. *)
C8_Witness ==
    /\ op = "get_fwrow"
    /\ arg.frequency = "session"
    /\ ret = Some([kind |-> "session", id |-> Val(arg.session)])

RECURSIVE Decimal(_)
Decimal(str) ==
    IF str = <<>> THEN 0 ELSE 10 * Decimal(SubSeq(str, 1, Len(str) - 1)) + (str[Len(str)] - 48)

LeafMatches(leaf, x) ==
    /\ IF IsNone(x.age) THEN leaf.metadata.age = [num |-> -1, den |-> 1]
       ELSE /\ leaf.metadata.age.den > 0
            /\ leaf.metadata.age.num * SecondsPerYear = Val(x.age) * leaf.metadata.age.den
    /\ IF IsNone(x.timestamp) THEN IsNone(leaf.metadata.date)
       ELSE /\ ~IsNone(leaf.metadata.date)
            /\ Len(Val(leaf.metadata.date)) = 8
            /\ \A k \in 1..8 : Val(leaf.metadata.date)[k] \in 48..57
            /\ Decimal(Val(leaf.metadata.date))
                   = Val(SessionDate(x)).y * 10000 + Val(SessionDate(x)).m * 100
                         + Val(SessionDate(x)).d

C10_LeafPerSession ==
    op = "populate_tree" =>
        /\ \A i \in 1..Len(tree) :
               /\ SessionsAt(tree[i].ids) # {}
               /\ LeafMatches(tree[i], SessionAt(tree[i].ids))
               /\ \A j \in 1..Len(tree) : tree[j].ids = tree[i].ids => j = i
        /\ error = "none" =>
               \A s \in SubjectsOf(project) : \A x \in s.sessions :
                   \E i \in 1..Len(tree) : tree[i].ids = <<s.label, x.label>>

(* A tree with a leaf of duration 0 and a leaf without a timestamp. *)
C10_Witness ==
    /\ op = "populate_tree"
    /\ error = "none"
    /\ \E i, j \in 1..Len(tree) :
           /\ SessionAt(tree[i].ids).age = Some(0)
           /\ tree[i].metadata.age = [num |-> 0, den |-> 1]
           /\ ~IsNone(tree[i].metadata.date)
           /\ IsNone(tree[j].metadata.date)
           /\ ~IsNone(SessionAt(tree[j].ids).age)

====
